---- MODULE Spec2Model ----
(***************************************************************************)
(* Model of gpu_benchmark/gpu_monitor_nvml.cpp: main() forks the benchmark *)
(* command, samples NVML while the child runs, writes an aggregated       *)
(* key=value report and returns the child's exit status.                   *)
(*                                                                         *)
(* Time is counted in ticks of TickMs milliseconds.  The child is a        *)
(* separate OS process: it terminates when the clock reaches tExit, and    *)
(* the kernel then holds its wait status until the monitor reaps it.       *)
(* Numbers the program keeps as double are kept exact, as pairs            *)
(* <<numerator, denominator>>; the report prints them with 3 decimals.     *)
(***************************************************************************)
EXTENDS Integers, Sequences, FiniteSets, TLC

VARIABLES
    run,          \* number of the monitor process being run (1, 2, ...)
    pc,           \* position of main()
    argc,         \* argc of this run
    interval,     \* argv[1], a sequence of characters
    sample_ms,    \* int sample_ms
    child,        \* "none" | "running" | "zombie" | "reaped"
    execFailed,   \* execvp failed in the forked child
    kstatus,      \* wait status the kernel holds for the child
    tFork,        \* clock at fork()
    tExit,        \* clock at which the child terminates
    now,          \* the clock (steady and wall), in ticks
    session,      \* NVML session: "none" | "active" | "closed"
    device,       \* device handle bound by nvmlDeviceGetHandleByIndex
    status,       \* int status of main()
    child_done,   \* bool child_done of the current iteration
    samples,      \* the five vectors, as one sequence of records
    lastRead,     \* latest read: <<what the device would answer, failing queries>>
    t_start,      \* steady_clock at line 72
    t_end,        \* steady_clock at line 113
    wakeAt,       \* clock at which sleep_for returns
    summary,      \* the values computed at lines 113-135
    ofsOpen,      \* the ofstream is open
    file,         \* content of the file at the output path
    exitCode,     \* exit code of the monitor process
    failCode,     \* code returned after the blocking wait (4 or 5)
    reaps,        \* successful waitpid calls of this run
    polls,        \* waitpid(WNOHANG) calls of this run
    blockingWaits,\* waitpid(pid, &status, 0) calls of this run
    lateWaits,    \* waitpid calls issued after the child was reaped
    shutdowns,    \* nvmlShutdown calls of this run
    lateNvml,     \* NVML calls issued after nvmlShutdown
    fileOps,      \* times this run opened the output file for writing
    fileBefore    \* content of the file when this run started

vars == <<run, pc, argc, interval, sample_ms, child, execFailed, kstatus, tFork,
          tExit, now, session, device, status, child_done, samples, t_start,
          t_end, wakeAt, lastRead, summary, ofsOpen, file, exitCode, failCode, reaps, polls,
          blockingWaits, lateWaits, shutdowns, lateNvml, fileOps, fileBefore>>

-----------------------------------------------------------------------------
(* Bounds of the model *)

MaxRuns == 2          \* monitor runs on the same output path
MaxDur == 2           \* longest child run, in ticks
MaxLag == 0           \* ticks the clock may advance after the longest child run
MaxSamples == 2       \* polls that may find the child running before the cap holds the loop
TickMs == 1000        \* milliseconds per tick
MaxAggLen == 3        \* longest series given to the aggregation alone

-----------------------------------------------------------------------------
(* Arithmetic helpers *)

CeilDiv(a, b) == (a + b - 1) \div b

\* nearest integer to a / b, for a >= 0 and b > 0
RoundDiv(a, b) == (2 * a + b) \div (2 * b)

RECURSIVE Gcd(_, _)
Gcd(a, b) == IF b = 0 THEN a ELSE Gcd(b, a % b)

\* the pair <<num, den>> in lowest terms (num >= 0, den > 0)
Reduce(q) == LET g == Gcd(q[1], q[2]) IN <<q[1] \div g, q[2] \div g>>

RECURSIVE SumOf(_, _)
SumOf(s, f) == IF s = <<>> THEN 0 ELSE s[1][f] + SumOf(Tail(s), f)

-----------------------------------------------------------------------------
(* argv[1] and std::atoi *)

Digits == <<"0", "1", "2", "3", "4", "5", "6", "7", "8", "9">>

IsDigit(c) == \E i \in 1..10 : Digits[i] = c

DigitVal(c) == (CHOOSE i \in 1..10 : Digits[i] = c) - 1

RECURSIVE AtoiDigits(_, _)
AtoiDigits(s, acc) ==
    IF s = <<>> \/ ~IsDigit(s[1]) THEN acc
    ELSE AtoiDigits(Tail(s), 10 * acc + DigitVal(s[1]))

RECURSIVE SkipSpace(_)
SkipSpace(s) == IF s # <<>> /\ s[1] = " " THEN SkipSpace(Tail(s)) ELSE s

AtoiSigned(s) ==
    IF s # <<>> /\ s[1] = "-" THEN 0 - AtoiDigits(Tail(s), 0)
    ELSE IF s # <<>> /\ s[1] = "+" THEN AtoiDigits(Tail(s), 0)
    ELSE AtoiDigits(s, 0)

Atoi(s) == AtoiSigned(SkipSpace(s))

\* the interval arguments tried
IntervalArgs ==
    { <<"1", "0", "0", "0">>, <<"2", "0", "0", "0">>, <<"0">>,
      <<"-", "1", "0", "0", "0">>, <<"a", "b", "c">> }

ArgCounts == {1, 3, 4}

-----------------------------------------------------------------------------
(* Wait status, as sys/wait.h encodes and decodes it *)

WExited(code) == (code % 256) * 256
WSignaled(sig, core) == sig + (IF core THEN 128 ELSE 0)

WIFEXITED(s) == (s % 128) = 0
WEXITSTATUS(s) == (s \div 256) % 256
WIFSIGNALED(s) == (s % 128) # 0 /\ (s % 128) # 127
WTERMSIG(s) == s % 128

\* outcomes of a command that was found and run
ChildStatuses == { WExited(0), WExited(7), WSignaled(9, FALSE), WSignaled(11, TRUE) }

\* the forked child leaving with 1 when execvp returns
ExecFailStatusOne == WExited(1)

\* an exec failure that the child reports as success
ExecFailStatusZero == WExited(0)

\* exit status of the forked child when execvp returns
ExecFailStatus == WExited(127)

-----------------------------------------------------------------------------
(* Telemetry: one read is five independent NVML queries *)

Metrics == {"power", "core", "mem", "util", "temp"}

\* what the device would answer; power in milliwatts as NVML reports it
Idle == [power |-> 2500, core |-> 1000, mem |-> 5000, util |-> 40, temp |-> 60]
Busy == [power |-> 4000, core |-> 1500, mem |-> 5000, util |-> 95, temp |-> 71]

\* the reads tried: what the device would answer, and the queries that fail
ReadCases == { <<Idle, {}>>, <<Busy, {}>>, <<Busy, {"power", "util"}>> }

\* lines 82-100: a failed query leaves 0 in its field.  power is kept in
\* milliwatts; the program's power_w is power / 1000
\* a read that pushes nothing for a failing query
ReadSampleSkipsFailed(rd, fails) ==
    [m \in Metrics \ fails |-> rd[m]]

\* a read that gives up on the first failing query, leaving every field 0
ReadSampleAborts(rd, fails) ==
    [m \in Metrics |-> IF fails # {} THEN 0 ELSE rd[m]]

ReadSample(rd, fails) ==
    [m \in Metrics |-> IF m \in fails THEN 0 ELSE rd[m]]

-----------------------------------------------------------------------------
(* Aggregation, lines 113-135; doubles are exact pairs <<num, den>> *)

\* the mean taken over n - 1
AvgOverOneLess(sum, n, scale) ==
    IF n > 1 THEN Reduce(<<sum, scale * (n - 1)>>) ELSE <<sum, scale>>

Avg(sum, n, scale) == IF n > 0 THEN Reduce(<<sum, scale * n>>) ELSE <<0, 1>>

Times(p, q) ==
    LET a == Reduce(<<p[1], q[2]>>)
        b == Reduce(<<q[1], p[2]>>)
    IN  <<a[1] * b[1], a[2] * b[2]>>

RECURSIVE TrapezoidSum(_)
TrapezoidSum(series) ==
    IF Len(series) < 2 THEN 0
    ELSE series[1].power + series[2].power + TrapezoidSum(Tail(series))

\* the aggregation with energy_j integrated by the trapezoidal rule over
\* evenly spaced samples
AggregateTrapezoid(series, start, end) ==
    LET n == Len(series)
        avg_p == Avg(SumOf(series, "power"), n, 1000)
        duration_s == Reduce(<<(end - start) * TickMs, 1000>>)
    IN  [ avg_p      |-> avg_p,
          avg_core   |-> Avg(SumOf(series, "core"), n, 1),
          avg_mem    |-> Avg(SumOf(series, "mem"), n, 1),
          avg_util   |-> Avg(SumOf(series, "util"), n, 1),
          avg_temp   |-> Avg(SumOf(series, "temp"), n, 1),
          n          |-> n,
          duration_s |-> duration_s,
          energy_j   |-> IF n < 2 THEN Times(avg_p, duration_s)
                         ELSE Times(Reduce(<<TrapezoidSum(series), 2000 * (n - 1)>>),
                                    duration_s) ]

Aggregate(series, start, end) ==
    LET n == Len(series)
        avg_p == Avg(SumOf(series, "power"), n, 1000)
        duration_s == Reduce(<<(end - start) * TickMs, 1000>>)
    IN  [ avg_p      |-> avg_p,
          avg_core   |-> Avg(SumOf(series, "core"), n, 1),
          avg_mem    |-> Avg(SumOf(series, "mem"), n, 1),
          avg_util   |-> Avg(SumOf(series, "util"), n, 1),
          avg_temp   |-> Avg(SumOf(series, "temp"), n, 1),
          n          |-> n,
          duration_s |-> duration_s,
          energy_j   |-> Times(avg_p, duration_s) ]

NoSummary == [n |-> -1]

-----------------------------------------------------------------------------
(* Report, lines 137-160 *)

\* a file is [exists, lines]; a line is <<key, value>>, a value a tuple of numbers
NoFile == [exists |-> FALSE, lines |-> <<>>]

\* what may lie at the output path before the first run
OldFiles == { NoFile, [exists |-> TRUE, lines |-> << <<"note", <<0>> >> >>] }

\* std::fixed << std::setprecision(3): integer part and three decimals
Fixed3(q) ==
    LET m == RoundDiv(1000 * q[1], q[2]) IN <<m \div 1000, m % 1000>>

\* strftime("%FT%T%z") of the wall clock: whole seconds
Timestamp(t) == <<(t * TickMs) \div 1000>>

ReportLines(sm, t) ==
    << <<"timestamp", Timestamp(t)>>,
       <<"power_avg_w", Fixed3(sm.avg_p)>>,
       <<"gpu_core_clock_MHz", Fixed3(sm.avg_core)>>,
       <<"gpu_mem_clock_MHz", Fixed3(sm.avg_mem)>>,
       <<"gpu_utilization_pct", Fixed3(sm.avg_util)>>,
       <<"gpu_temp_c", Fixed3(sm.avg_temp)>>,
       <<"samples", <<sm.n>> >>,
       <<"duration_s", Fixed3(sm.duration_s)>>,
       <<"energy_j", Fixed3(sm.energy_j)>> >>

\* the stream opened with ios::app
OpenAppend(old) == [exists |-> TRUE, lines |-> old.lines]

\* std::ofstream(out_file, ios::out | ios::trunc): created or emptied
OpenTrunc(old) == [exists |-> TRUE, lines |-> <<>>]

\* operator<< on the open stream: the lines go after what the file holds
WriteLines(f, lines) == [f EXCEPT !.lines = @ \o lines]

-----------------------------------------------------------------------------
(* Exit propagation, lines 165-167 *)

\* the signal number returned without the 128 offset
ExitPropagationNoOffset(s) ==
    IF WIFEXITED(s) THEN WEXITSTATUS(s)
    ELSE IF WIFSIGNALED(s) THEN WTERMSIG(s)
    ELSE 0

ExitPropagation(s) ==
    IF WIFEXITED(s) THEN WEXITSTATUS(s)
    ELSE IF WIFSIGNALED(s) THEN 128 + WTERMSIG(s)
    ELSE 0

\* a sleep that returns at once
SleepTicksNone(ms) == 0

\* std::this_thread::sleep_for(milliseconds(ms)): whole ticks slept
SleepTicks(ms) == IF ms <= 0 THEN 0 ELSE CeilDiv(ms, TickMs)

-----------------------------------------------------------------------------
(* The state after exec of the monitor, before main() runs *)

StartOfRun(r, f, t) ==
    /\ run = r
    /\ pc = "args"
    /\ argc \in ArgCounts
    /\ interval \in IntervalArgs
    /\ sample_ms = 0
    /\ child = "none"
    /\ execFailed = FALSE
    /\ kstatus = 0
    /\ tFork = t
    /\ tExit = t
    /\ now = t
    /\ session = "none"
    /\ device = FALSE
    /\ status = 0
    /\ child_done = FALSE
    /\ samples = <<>>
    /\ lastRead = <<Idle, {}>>
    /\ t_start = t
    /\ t_end = t
    /\ wakeAt = t
    /\ summary = NoSummary
    /\ ofsOpen = FALSE
    /\ file = f
    /\ exitCode = -1
    /\ failCode = 0
    /\ reaps = 0
    /\ polls = 0
    /\ blockingWaits = 0
    /\ lateWaits = 0
    /\ shutdowns = 0
    /\ lateNvml = 0
    /\ fileOps = 0
    /\ fileBefore = f

Init == \E f \in OldFiles : StartOfRun(1, f, 0)

Exit(code) == pc' = "exited" /\ exitCode' = code

-----------------------------------------------------------------------------
(* main(), one action per step *)

\* the usage check off by one
TooFewArgsOffByOne(n) == n < 3

\* line 20
TooFewArgs(n) == n < 4

\* lines 20-29
CheckArgs ==
    /\ pc = "args"
    /\ IF TooFewArgs(argc)
       THEN Exit(2) /\ UNCHANGED sample_ms
       ELSE pc' = "fork" /\ sample_ms' = Atoi(interval) /\ UNCHANGED exitCode
    /\ UNCHANGED <<run, argc, interval, child, execFailed, kstatus, tFork, tExit,
                   now, session, device, status, child_done, samples, t_start,
                   wakeAt, summary, ofsOpen, file, failCode, reaps, polls,
                   blockingWaits, lateWaits, shutdowns, lateNvml, fileOps,
                   fileBefore,
                   t_end, lastRead>>

\* the child from fork() on: it runs dur ticks and leaves wait status st
Spawned(st, dur, failed) ==
    /\ child' = IF dur = 0 THEN "zombie" ELSE "running"
    /\ kstatus' = st
    /\ execFailed' = failed
    /\ tFork' = now
    /\ tExit' = now + dur

\* lines 32-44: fork() fails, or the child execs the command, or execvp
\* returns in the child, which then calls _exit(127)
Fork ==
    /\ pc = "fork"
    /\ \/ /\ Exit(3)
          /\ UNCHANGED <<child, kstatus, execFailed, tFork, tExit>>
       \/ /\ \E st \in ChildStatuses, dur \in 0..MaxDur : Spawned(st, dur, FALSE)
          /\ pc' = "nvml_init"
          /\ UNCHANGED exitCode
       \/ /\ \E dur \in 0..1 : Spawned(ExecFailStatus, dur, TRUE)
          /\ pc' = "nvml_init"
          /\ UNCHANGED exitCode
    /\ UNCHANGED <<run, argc, interval, sample_ms, now, session, device, status,
                   child_done, samples, t_start, wakeAt, summary, ofsOpen, file,
                   failCode, reaps, polls, blockingWaits, lateWaits, shutdowns,
                   lateNvml, fileOps, fileBefore,
                   t_end, lastRead>>

\* a call into NVML: counted when the session is already shut down
NvmlCall == lateNvml' = IF session = "closed" THEN lateNvml + 1 ELSE lateNvml

\* nvmlShutdown()
NvmlShutdown == session' = "closed" /\ shutdowns' = shutdowns + 1

\* lines 47-54
NvmlInit ==
    /\ pc = "nvml_init"
    /\ \/ /\ session' = "active"
          /\ pc' = "get_device"
          /\ UNCHANGED failCode
       \/ /\ pc' = "wait"
          /\ failCode' = 4
          /\ UNCHANGED session
    /\ UNCHANGED <<run, argc, interval, sample_ms, child, execFailed, kstatus,
                   tFork, tExit, now, device, status, child_done, samples,
                   t_start, wakeAt, summary, ofsOpen, file, exitCode, reaps,
                   polls, blockingWaits, lateWaits, shutdowns, lateNvml, fileOps,
                   fileBefore,
                   t_end, lastRead>>

\* lines 56-64
GetDevice ==
    /\ pc = "get_device"
    /\ NvmlCall
    /\ \/ /\ device' = TRUE
          /\ pc' = "t_start"
          /\ UNCHANGED <<failCode, session, shutdowns>>
       \/ /\ NvmlShutdown
          /\ pc' = "wait"
          /\ failCode' = 5
          /\ UNCHANGED device
    /\ UNCHANGED <<run, argc, interval, sample_ms, child, execFailed, kstatus,
                   tFork, tExit, now, status, child_done, samples, t_start,
                   wakeAt, summary, ofsOpen, file, exitCode, reaps, polls,
                   blockingWaits, lateWaits, fileOps, fileBefore,
                   t_end, lastRead>>

\* the degraded path returning the status it collected
DegradedExitPropagating(code, st) ==
    IF WIFEXITED(st) THEN WEXITSTATUS(st) ELSE 128 + WTERMSIG(st)

\* the code the monitor returns after the blocking wait of lines 52 and 62
DegradedExit(code, st) == code

\* the wait returning at once, as with WNOHANG
BlockingWaitReturnsAtOnce(c) == TRUE

\* waitpid(pid, &status, 0) blocks while the child runs
BlockingWaitReturns(c) == c # "running"

\* lines 51-53 and 61-63: waitpid(pid, &status, 0) returns once the child has
\* terminated; the local status is then dropped
WaitBlocking ==
    /\ pc = "wait"
    /\ BlockingWaitReturns(child)
    /\ blockingWaits' = blockingWaits + 1
    /\ IF child = "zombie"
       THEN child' = "reaped" /\ reaps' = reaps + 1 /\ UNCHANGED lateWaits
       ELSE /\ lateWaits' = IF child = "reaped" THEN lateWaits + 1 ELSE lateWaits
            /\ UNCHANGED <<child, reaps>>
    /\ Exit(DegradedExit(failCode, kstatus))
    /\ UNCHANGED <<run, argc, interval, sample_ms, execFailed, kstatus, tFork,
                   tExit, now, session, device, status, child_done, samples,
                   t_start, wakeAt, summary, ofsOpen, file, failCode, polls,
                   shutdowns, lateNvml, fileOps, fileBefore,
                   t_end, lastRead>>

\* the start instant taken to be the instant of the fork
StartClockAtSpawn ==
    /\ pc = "t_start"
    /\ t_start' = tFork
    /\ status' = 0
    /\ pc' = "poll"
    /\ UNCHANGED <<run, argc, interval, sample_ms, child, execFailed, kstatus,
                   tFork, tExit, now, session, device, child_done, samples,
                   wakeAt, summary, ofsOpen, file, exitCode, failCode, reaps,
                   polls, blockingWaits, lateWaits, shutdowns, lateNvml, fileOps,
                   fileBefore,
                   t_end, lastRead>>

\* line 72-75
StartClock ==
    /\ pc = "t_start"
    /\ t_start' = now
    /\ status' = 0
    /\ pc' = "poll"
    /\ UNCHANGED <<run, argc, interval, sample_ms, child, execFailed, kstatus,
                   tFork, tExit, now, session, device, child_done, samples,
                   wakeAt, summary, ofsOpen, file, exitCode, failCode, reaps,
                   polls, blockingWaits, lateWaits, shutdowns, lateNvml, fileOps,
                   fileBefore,
                   t_end, lastRead>>

\* what waitpid(pid, &status, WNOHANG) returns
PollResult(c) ==
    IF c = "zombie" THEN "pid" ELSE IF c = "running" THEN "zero" ELSE "error"

\* lines 78-79.  A loop that does not sleep makes at most MaxSamples
\* iterations before the clock moves on
Poll ==
    /\ pc = "poll"
    /\ Len(samples) < MaxSamples \/ child # "running"
    /\ polls' = polls + 1
    /\ child_done' = (PollResult(child) = "pid")
    /\ IF child = "zombie"
       THEN /\ child' = "reaped"
            /\ status' = kstatus
            /\ reaps' = reaps + 1
            /\ UNCHANGED lateWaits
       ELSE /\ lateWaits' = IF child = "reaped" THEN lateWaits + 1 ELSE lateWaits
            /\ UNCHANGED <<child, status, reaps>>
    /\ pc' = "sample"
    /\ UNCHANGED <<run, argc, interval, sample_ms, execFailed, kstatus, tFork,
                   tExit, now, session, device, samples, t_start, wakeAt, summary,
                   ofsOpen, file, exitCode, failCode, blockingWaits, shutdowns,
                   lateNvml, fileOps, fileBefore,
                   t_end, lastRead>>

\* lines 82-106: one read of the five metrics, appended to the vectors; the
\* device's answers and the failing queries are drawn from cases
SampleFrom(cases) ==
    /\ pc = "sample"
    /\ NvmlCall
    /\ \E rc \in cases :
          /\ samples' = Append(samples, ReadSample(rc[1], rc[2]))
          /\ lastRead' = rc
    /\ pc' = "check"
    /\ UNCHANGED <<run, argc, interval, sample_ms, child, execFailed, kstatus,
                   tFork, tExit, now, session, device, status, child_done,
                   t_start, wakeAt, summary, ofsOpen, file, exitCode, failCode,
                   reaps, polls, blockingWaits, lateWaits, shutdowns, fileOps,
                   fileBefore, t_end>>

\* the read that is skipped once the poll has seen the child exit
SampleCheckFirst ==
    /\ pc = "sample"
    /\ NvmlCall
    /\ IF child_done
       THEN UNCHANGED <<samples, lastRead>>
       ELSE \E rc \in ReadCases :
               /\ samples' = Append(samples, ReadSample(rc[1], rc[2]))
               /\ lastRead' = rc
    /\ pc' = "check"
    /\ UNCHANGED <<run, argc, interval, sample_ms, child, execFailed, kstatus,
                   tFork, tExit, now, session, device, status, child_done,
                   t_start, wakeAt, summary, ofsOpen, file, exitCode, failCode,
                   reaps, polls, blockingWaits, lateWaits, shutdowns, fileOps,
                   fileBefore, t_end>>

\* lines 82-106 with the reads tried in Spec
Sample == SampleFrom(ReadCases)

\* the loop left after its first iteration
LoopBreaksAlways(done) == TRUE

\* line 108: if (child_done) break
LoopBreaks(done) == done

\* lines 108-110: leave the loop, or call sleep_for
CheckDone ==
    /\ pc = "check"
    /\ IF LoopBreaks(child_done)
       THEN pc' = "aggregate" /\ UNCHANGED wakeAt
       ELSE pc' = "sleep" /\ wakeAt' = now + SleepTicks(sample_ms)
    /\ UNCHANGED <<run, argc, interval, sample_ms, child, execFailed, kstatus,
                   tFork, tExit, now, session, device, status, child_done,
                   samples, t_start, summary, ofsOpen, file, exitCode, failCode,
                   reaps, polls, blockingWaits, lateWaits, shutdowns, lateNvml,
                   fileOps, fileBefore,
                   t_end, lastRead>>

\* the loop left when the sleep is over, as on a timeout
WakeLeavesLoop ==
    /\ pc = "sleep"
    /\ now >= wakeAt
    /\ pc' = "aggregate"
    /\ UNCHANGED <<run, argc, interval, sample_ms, child, execFailed, kstatus,
                   tFork, tExit, now, session, device, status, child_done,
                   samples, t_start, wakeAt, summary, ofsOpen, file, exitCode,
                   failCode, reaps, polls, blockingWaits, lateWaits, shutdowns,
                   lateNvml, fileOps, fileBefore, t_end, lastRead>>

\* line 110: sleep_for returns no earlier than the interval
Wake ==
    /\ pc = "sleep"
    /\ now >= wakeAt
    /\ pc' = "poll"
    /\ UNCHANGED <<run, argc, interval, sample_ms, child, execFailed, kstatus,
                   tFork, tExit, now, session, device, status, child_done,
                   samples, t_start, wakeAt, summary, ofsOpen, file, exitCode,
                   failCode, reaps, polls, blockingWaits, lateWaits, shutdowns,
                   lateNvml, fileOps, fileBefore,
                   t_end, lastRead>>

\* lines 113-135
ComputeSummary ==
    /\ pc = "aggregate"
    /\ t_end' = now
    /\ summary' = Aggregate(samples, t_start, t_end')
    /\ pc' = "open"
    /\ UNCHANGED <<run, argc, interval, sample_ms, child, execFailed, kstatus,
                   tFork, tExit, now, session, device, status, child_done,
                   samples, t_start, wakeAt, ofsOpen, file, exitCode, failCode,
                   reaps, polls, blockingWaits, lateWaits, shutdowns, lateNvml,
                   fileOps, fileBefore,
                   lastRead>>

\* the open failure returning without nvmlShutdown
OpenFailureLeak ==
    /\ Exit(6)
    /\ UNCHANGED <<session, shutdowns, ofsOpen, file, fileOps>>

\* the open failure returning the child's status instead of 6
OpenFailurePropagates ==
    /\ NvmlShutdown
    /\ Exit(ExitPropagation(status))
    /\ UNCHANGED <<ofsOpen, file, fileOps>>

\* lines 139-143: the stream failed to open
OpenFailure ==
    /\ NvmlShutdown
    /\ Exit(6)
    /\ UNCHANGED <<ofsOpen, file, fileOps>>

\* lines 138-143
OpenReport ==
    /\ pc = "open"
    /\ \/ /\ file' = OpenTrunc(file)
          /\ ofsOpen' = TRUE
          /\ fileOps' = fileOps + 1
          /\ pc' = "write"
          /\ UNCHANGED <<session, shutdowns, exitCode>>
       \/ OpenFailure
    /\ UNCHANGED <<run, argc, interval, sample_ms, child, execFailed, kstatus,
                   tFork, tExit, now, device, status, child_done, samples,
                   t_start, wakeAt, summary, failCode, reaps, polls,
                   blockingWaits, lateWaits, lateNvml, fileBefore,
                   t_end, lastRead>>

\* lines 145-160
WriteReport ==
    /\ pc = "write"
    /\ ofsOpen
    /\ file' = WriteLines(file, ReportLines(summary, now))
    /\ ofsOpen' = FALSE
    /\ pc' = "shutdown"
    /\ UNCHANGED <<run, argc, interval, sample_ms, child, execFailed, kstatus,
                   tFork, tExit, now, session, device, status, child_done,
                   samples, t_start, wakeAt, summary, exitCode, failCode, reaps,
                   polls, blockingWaits, lateWaits, shutdowns, lateNvml, fileOps,
                   fileBefore,
                   t_end, lastRead>>

\* line 162
Shutdown ==
    /\ pc = "shutdown"
    /\ NvmlShutdown
    /\ pc' = "return"
    /\ UNCHANGED <<run, argc, interval, sample_ms, child, execFailed, kstatus,
                   tFork, tExit, now, device, status, child_done, samples,
                   t_start, wakeAt, summary, ofsOpen, file, exitCode, failCode,
                   reaps, polls, blockingWaits, lateWaits, lateNvml, fileOps,
                   fileBefore,
                   t_end, lastRead>>

\* lines 164-167
Return ==
    /\ pc = "return"
    /\ Exit(ExitPropagation(status))
    /\ UNCHANGED <<run, argc, interval, sample_ms, child, execFailed, kstatus,
                   tFork, tExit, now, session, device, status, child_done,
                   samples, t_start, wakeAt, summary, ofsOpen, file, failCode,
                   reaps, polls, blockingWaits, lateWaits, shutdowns, lateNvml,
                   fileOps, fileBefore,
                   t_end, lastRead>>

-----------------------------------------------------------------------------
(* The environment *)

\* the clock advances; a running child whose time is up terminates
Tick ==
    /\ child # "none"
    /\ pc # "exited"
    /\ now - tFork < MaxDur + MaxLag \/ (pc = "sleep" /\ now < wakeAt)
    /\ now' = now + 1
    /\ child' = IF child = "running" /\ now + 1 >= tExit THEN "zombie" ELSE child
    /\ UNCHANGED <<run, pc, argc, interval, sample_ms, execFailed, kstatus, tFork,
                   tExit, session, device, status, child_done, samples, t_start,
                   wakeAt, summary, ofsOpen, file, exitCode, failCode, reaps,
                   polls, blockingWaits, lateWaits, shutdowns, lateNvml, fileOps,
                   fileBefore,
                   t_end, lastRead>>

\* the monitor is run again on the same output path
NewRun ==
    /\ pc = "exited"
    /\ run < MaxRuns
    /\ run' = run + 1
    /\ pc' = "args"
    /\ argc' \in ArgCounts
    /\ interval' \in IntervalArgs
    /\ sample_ms' = 0
    /\ child' = "none"
    /\ execFailed' = FALSE
    /\ kstatus' = 0
    /\ tFork' = now
    /\ tExit' = now
    /\ session' = "none"
    /\ device' = FALSE
    /\ status' = 0
    /\ child_done' = FALSE
    /\ samples' = <<>>
    /\ lastRead' = <<Idle, {}>>
    /\ t_start' = now
    /\ t_end' = now
    /\ wakeAt' = now
    /\ summary' = NoSummary
    /\ ofsOpen' = FALSE
    /\ exitCode' = -1
    /\ failCode' = 0
    /\ reaps' = 0
    /\ polls' = 0
    /\ blockingWaits' = 0
    /\ lateWaits' = 0
    /\ shutdowns' = 0
    /\ lateNvml' = 0
    /\ fileOps' = 0
    /\ fileBefore' = file
    /\ UNCHANGED <<now, file>>

Next ==
    \/ CheckArgs
    \/ Fork
    \/ NvmlInit
    \/ GetDevice
    \/ WaitBlocking
    \/ StartClock
    \/ Poll
    \/ Sample
    \/ CheckDone
    \/ Wake
    \/ ComputeSummary
    \/ OpenReport
    \/ WriteReport
    \/ Shutdown
    \/ Return
    \/ Tick

Spec == Init /\ [][Next]_vars

-----------------------------------------------------------------------------------------------------------------------------------------------------
(* Several runs on one output path.  To keep the runs few enough to follow   *)
(* one another, every run is given the same interval, a child that exits     *)
(* with 0 or 7 within one tick, two kinds of read, and two ticks of clock.   *)

RunsReads == { ReadSample(Idle, {}), ReadSample(Busy, {"power", "util"}) }

RunsInputs ==
    /\ argc \in {3, 4}
    /\ interval = <<"1", "0", "0", "0">>
    /\ kstatus \in {WExited(0), WExited(7)}
    /\ tExit - tFork <= 1
    /\ now - tFork <= 2
    /\ \A i \in 1..Len(samples) : samples[i] \in RunsReads

InitRuns == Init /\ RunsInputs

NextRuns ==
    \/ CheckArgs /\ RunsInputs'
    \/ Fork /\ RunsInputs'
    \/ NvmlInit /\ RunsInputs'
    \/ GetDevice /\ RunsInputs'
    \/ WaitBlocking /\ RunsInputs'
    \/ StartClock /\ RunsInputs'
    \/ Poll /\ RunsInputs'
    \/ Sample /\ RunsInputs'
    \/ CheckDone /\ RunsInputs'
    \/ Wake /\ RunsInputs'
    \/ ComputeSummary /\ RunsInputs'
    \/ OpenReport /\ RunsInputs'
    \/ WriteReport /\ RunsInputs'
    \/ Shutdown /\ RunsInputs'
    \/ Return /\ RunsInputs'
    \/ Tick /\ RunsInputs'
    \/ NewRun /\ RunsInputs'

SpecRuns == InitRuns /\ [][NextRuns]_vars

-----------------------------------------------------------------------------
(* One run under fair scheduling: the monitor process keeps being scheduled  *)
(* and the clock keeps advancing.  What the reads return has no part in the  *)
(* control flow, so every read is given the same answer.                     *)

FairInputs == \A i \in 1..Len(samples) : samples[i] = ReadSample(Idle, {})

\* the steps of main()
MainFair ==
    \/ CheckArgs /\ FairInputs'
    \/ Fork /\ FairInputs'
    \/ NvmlInit /\ FairInputs'
    \/ GetDevice /\ FairInputs'
    \/ WaitBlocking /\ FairInputs'
    \/ StartClock /\ FairInputs'
    \/ Poll /\ FairInputs'
    \/ Sample /\ FairInputs'
    \/ CheckDone /\ FairInputs'
    \/ Wake /\ FairInputs'
    \/ ComputeSummary /\ FairInputs'
    \/ OpenReport /\ FairInputs'
    \/ WriteReport /\ FairInputs'
    \/ Shutdown /\ FairInputs'
    \/ Return /\ FairInputs'

NextFair == MainFair \/ Tick

SpecFair == Init /\ [][NextFair]_vars /\ WF_vars(MainFair) /\ WF_vars(Tick)

-----------------------------------------------------------------------------
(* One run in which any subset of the five queries of a read may fail.       *)

\* lines 81-100: each of the five queries fails or not, on its own
AllReadCases == { <<rd, fails>> : rd \in {Idle, Busy}, fails \in SUBSET Metrics }

ReadInputs ==
    /\ argc = 4
    /\ interval = <<"1", "0", "0", "0">>
    /\ kstatus \in {0, WExited(0), WSignaled(9, FALSE)}
    /\ tExit - tFork <= 1
    /\ now - tFork <= 2
    /\ fileBefore = NoFile

InitRead == Init /\ ReadInputs

NextRead ==
    \/ CheckArgs /\ ReadInputs'
    \/ Fork /\ ReadInputs'
    \/ NvmlInit /\ ReadInputs'
    \/ GetDevice /\ ReadInputs'
    \/ WaitBlocking /\ ReadInputs'
    \/ StartClock /\ ReadInputs'
    \/ Poll /\ ReadInputs'
    \/ SampleFrom(AllReadCases) /\ ReadInputs'
    \/ CheckDone /\ ReadInputs'
    \/ Wake /\ ReadInputs'
    \/ ComputeSummary /\ ReadInputs'
    \/ OpenReport /\ ReadInputs'
    \/ WriteReport /\ ReadInputs'
    \/ Shutdown /\ ReadInputs'
    \/ Return /\ ReadInputs'
    \/ Tick /\ ReadInputs'

SpecRead == InitRead /\ [][NextRead]_vars

-----------------------------------------------------------------------------
(* The aggregation and the report of lines 113-167 as a function of the      *)
(* vectors: main() from line 113 on, entered with any series of at most      *)
(* MaxAggLen samples.  The loop always leaves at least one sample, so the    *)
(* empty series is met only here.                                            *)

AggReads == { ReadSample(rc[1], rc[2]) : rc \in ReadCases }

RECURSIVE SeriesUpTo(_)
SeriesUpTo(k) ==
    IF k = 0 THEN { <<>> }
    ELSE SeriesUpTo(k - 1) \cup
         { Append(q, r) : q \in { x \in SeriesUpTo(k - 1) : Len(x) = k - 1 },
                          r \in AggReads }

InitAgg ==
    /\ run = 1
    /\ pc = "aggregate"
    /\ argc = 4
    /\ interval = <<"1", "0", "0", "0">>
    /\ sample_ms = Atoi(interval)
    /\ child = "reaped"
    /\ execFailed = FALSE
    /\ kstatus = WExited(0)
    /\ tFork = 0
    /\ tExit = 0
    /\ now \in 0..MaxDur
    /\ session = "active"
    /\ device = TRUE
    /\ status = kstatus
    /\ child_done = TRUE
    /\ samples \in SeriesUpTo(MaxAggLen)
    /\ lastRead = <<Idle, {}>>
    /\ t_start = 0
    /\ t_end = 0
    /\ wakeAt = 0
    /\ summary = NoSummary
    /\ ofsOpen = FALSE
    /\ file \in OldFiles
    /\ exitCode = -1
    /\ failCode = 0
    /\ reaps = 1
    /\ polls = Len(samples)
    /\ blockingWaits = 0
    /\ lateWaits = 0
    /\ shutdowns = 0
    /\ lateNvml = 0
    /\ fileOps = 0
    /\ fileBefore = file

NextAgg ==
    \/ ComputeSummary
    \/ OpenReport
    \/ WriteReport
    \/ Shutdown
    \/ Return

SpecAgg == InitAgg /\ [][NextAgg]_vars

-----------------------------------------------------------------------------
(* Vocabulary of the properties *)

Exited == pc = "exited"

\* the child was spawned in this run
Spawned1 == child # "none"

\* the run ended on the degraded path: spawned, no device bound
Degraded == Exited /\ Spawned1 /\ ~device

\* the run ended after opening and writing the report
Reported == Exited /\ fileOps = 1

\* the run ended because the output file could not be opened
OpenFailed == Exited /\ device /\ fileOps = 0

\* the sampling loop of this run has ended
LoopEnded == device /\ pc \in {"aggregate", "open", "write", "shutdown", "return", "exited"}

\* the exit code a shell would report for the child, from how it ended
ChildOutcomeCode ==
    CHOOSE x \in 0..255 :
        \/ kstatus = WExited(x)
        \/ \E core \in BOOLEAN : x > 128 /\ kstatus = WSignaled(x - 128, core)

ReportKeys ==
    <<"timestamp", "power_avg_w", "gpu_core_clock_MHz", "gpu_mem_clock_MHz",
      "gpu_utilization_pct", "gpu_temp_c", "samples", "duration_s", "energy_j">>

\* f holds exactly one set of the 9 keys, each once and in order
OneReport(f) ==
    /\ f.exists
    /\ Len(f.lines) = 9
    /\ \A i \in 1..9 : f.lines[i][1] = ReportKeys[i]

-----------------------------------------------------------------------------
(* C1 *)

\* C1: on the sampled path (report written) the monitor's exit code is the
\* child's reaped outcome, c for a normal exit with code c and 128+s for a
\* death by signal s, and it is returned only after the report was written
\* and the telemetry session shut down.
C1_ExitPropagated ==
    Reported =>
        /\ reaps = 1
        /\ status = kstatus
        /\ \A c \in 0..255 : kstatus = WExited(c) => exitCode = c
        /\ \A sig \in 1..64, core \in BOOLEAN :
              kstatus = WSignaled(sig, core) => exitCode = 128 + sig
        /\ OneReport(file)
        /\ ~ofsOpen
        /\ session = "closed"

C1_Witness == Reported /\ kstatus = WSignaled(9, FALSE) /\ exitCode = 137

-----------------------------------------------------------------------------
(* C2 *)

\* C2 as stated: on the degraded path the monitor's exit code is the
\* child's propagated outcome.
C2_DegradedPropagates == Degraded => exitCode = ChildOutcomeCode

\* C2 amended: on the degraded path the monitor reaps the child and then
\* exits 4 when session init failed and 5 when the device could not be
\* bound, whatever the child's outcome was.
C2_DegradedExitCode ==
    Degraded =>
        /\ reaps = 1
        /\ child = "reaped"
        /\ exitCode = IF session = "none" THEN 4 ELSE 5

C2_Witness == Degraded /\ kstatus = WExited(7) /\ session = "closed" /\ exitCode = 5

-----------------------------------------------------------------------------
(* C3 *)

\* C3: on the degraded path the monitor is a pure supervisor: one blocking
\* wait that returns only once the child has terminated, no poll, no sample,
\* and the output file neither opened nor changed.
C3_PureSupervisor ==
    Degraded =>
        /\ blockingWaits = 1
        /\ polls = 0
        /\ child = "reaped"
        /\ now >= tExit
        /\ samples = <<>>
        /\ summary = NoSummary
        /\ fileOps = 0
        /\ file = fileBefore

C3_Witness == Degraded /\ tExit = tFork + MaxDur /\ session = "none" /\ now = tExit

-----------------------------------------------------------------------------
(* C4 *)

\* C4: after a successful fork the monitor never exits while the child is
\* unreaped: at exit the child has terminated and was reaped by exactly one
\* successful waitpid, the poll that saw the exit or the one blocking wait;
\* no waitpid is ever issued after the reap, and the child ends only when
\* its own run is over.
C4_NeverOrphaned ==
    /\ Exited /\ Spawned1 =>
          /\ child = "reaped"
          /\ reaps = 1
          /\ now >= tExit
          /\ blockingWaits = IF polls = 0 THEN 1 ELSE 0
    /\ lateWaits = 0
    /\ reaps = IF child = "reaped" THEN 1 ELSE 0
    /\ child \in {"zombie", "reaped"} => now >= tExit

C4_Witness == Exited /\ Spawned1 /\ polls = 3 /\ reaps = 1 /\ exitCode = 0

-----------------------------------------------------------------------------
(* C5 *)

\* C5: once the session is established, nvmlShutdown is called exactly once
\* before the process exits, on the success, device-bind-failure and
\* open-failure paths alike, never twice, and no NVML call follows it.
C5_ShutdownOnce ==
    /\ Exited /\ session # "none" => shutdowns = 1 /\ session = "closed"
    /\ shutdowns = IF session = "closed" THEN 1 ELSE 0
    /\ lateNvml = 0

C5_Witness == OpenFailed /\ shutdowns = 1 /\ session = "closed"

-----------------------------------------------------------------------------
(* C6 *)

\* C6: with an interval I > 0 and a child that runs for D, the series holds
\* at least 1 and at most ceil(D / I) + 1 samples when the loop has ended.
C6_SampleCount ==
    LoopEnded /\ sample_ms > 0 =>
        /\ Len(samples) >= 1
        /\ Len(samples) <= CeilDiv((tExit - tFork) * TickMs, sample_ms) + 1

C6_Witness ==
    /\ LoopEnded
    /\ sample_ms > 0
    /\ tExit - tFork = MaxDur
    /\ Len(samples) = CeilDiv((tExit - tFork) * TickMs, sample_ms) + 1
    /\ Len(samples) = MaxDur + 1

-----------------------------------------------------------------------------
(* C7 *)

\* C7 as stated: when exec fails in the forked child the monitor exits 3
\* (or 127) and the output file is neither created nor modified.
C7_ExecFailureNoReport ==
    Exited /\ execFailed => exitCode \in {3, 127} /\ fileOps = 0 /\ file = fileBefore

\* C7 amended: when exec fails in the forked child the monitor never exits
\* 3; it exits 127 exactly when it has written a report (of at least one
\* sample) over the output file, and otherwise exits 4, 5 or 6 and leaves
\* the file as it was.
C7_ExecFailure ==
    Exited /\ execFailed =>
        /\ exitCode \in {127, 4, 5, 6}
        /\ exitCode = 127 <=> Reported
        /\ Reported => OneReport(file) /\ summary.n >= 1 /\ file.lines[7][2] = <<summary.n>>
        /\ ~Reported => file = fileBefore /\ fileOps = 0

C7_Witness == Exited /\ execFailed /\ exitCode = 127 /\ OneReport(file) /\ file # fileBefore

-----------------------------------------------------------------------------
(* C8 *)

\* C8: the report is overwritten, never appended: after any sequence of
\* runs on one output path the file holds one set of the 9 keys, in order,
\* with the values of the most recent run that wrote it; a run that does
\* not write leaves the file as it was.
C8_ReportOverwritten ==
    /\ Reported =>
          /\ OneReport(file)
          /\ \A i \in 2..9 : file.lines[i] = ReportLines(summary, 0)[i]
          /\ file.lines[7][2] = <<Len(samples)>>
          /\ \E t \in tFork..now : file.lines[1][2] = Timestamp(t)
    /\ Exited /\ ~Reported => file = fileBefore
    /\ pc = "args" => file \in OldFiles \/ OneReport(file)

C8_Witness ==
    /\ Reported
    /\ run = MaxRuns
    /\ OneReport(fileBefore)
    /\ fileBefore.lines[7] # file.lines[7]
    /\ fileBefore.lines[2] # file.lines[2]

-----------------------------------------------------------------------------
(* C9 *)

\* C9: when the output file cannot be opened after telemetry succeeded the
\* monitor exits 6 whatever the child's outcome; the child has terminated
\* and been reaped, the session is shut down, and the file is unchanged.
C9_OpenFailure ==
    OpenFailed =>
        /\ exitCode = 6
        /\ child = "reaped"
        /\ reaps = 1
        /\ now >= tExit
        /\ session = "closed"
        /\ shutdowns = 1
        /\ ~ofsOpen
        /\ file = fileBefore

C9_Witness == OpenFailed /\ kstatus = WExited(7) /\ exitCode = 6 /\ Len(samples) = 2

-----------------------------------------------------------------------------
(* C10 *)

\* C10: failures before the child exists are fatal and immediate: with
\* argc < 4 the monitor exits 2 without forking, and when fork fails it
\* exits 3; in both cases without initialising telemetry, sampling or
\* touching the output file.
C10_FatalBeforeChild ==
    /\ argc < 4 =>
          /\ pc \in {"args", "exited"}
          /\ child = "none"
          /\ Exited => exitCode = 2
    /\ Exited /\ ~Spawned1 =>
          /\ exitCode = IF argc < 4 THEN 2 ELSE 3
          /\ session = "none"
          /\ shutdowns = 0
          /\ samples = <<>>
          /\ polls = 0
          /\ blockingWaits = 0
          /\ fileOps = 0
          /\ file = fileBefore

C10_Witness == Exited /\ argc = 3 /\ exitCode = 2 /\ file.exists

-----------------------------------------------------------------------------
(* C11 *)

\* C11: a run whose interval argument parses to a value <= 0 spawns no
\* child and never enters the sampling loop.
C11_BadIntervalFatal ==
    argc >= 4 /\ Atoi(interval) <= 0 =>
        /\ child = "none"
        /\ polls = 0
        /\ samples = <<>>

-----------------------------------------------------------------------------
(* C12 *)

RECURSIVE Reverse(_)
Reverse(q) == IF q = <<>> THEN <<>> ELSE Append(Reverse(Tail(q)), q[1])

\* mean power (W) of the series times the loop duration (s), from the
\* samples and the two clock readings
MeanPowerTimesDuration ==
    Reduce(<<SumOf(samples, "power") * (t_end - t_start) * TickMs,
             Len(samples) * 1000000>>)

\* C12: in every written report energy_j is the mean power of the whole
\* series times the one measured loop duration, and so is the same for the
\* series taken in the opposite order.
C12_EnergyIsMeanTimesDuration ==
    Reported =>
        /\ Reduce(summary.energy_j) = MeanPowerTimesDuration
        /\ Reduce(summary.energy_j) =
              Reduce(<<summary.avg_p[1] * summary.duration_s[1],
                       summary.avg_p[2] * summary.duration_s[2]>>)
        /\ file.lines[9] = <<"energy_j", Fixed3(MeanPowerTimesDuration)>>
        /\ Aggregate(Reverse(samples), t_start, t_end).energy_j = summary.energy_j

\* a written report of three samples whose trapezoidal integral differs
\* from mean power times duration
C12_Witness ==
    /\ Reported
    /\ Len(samples) = 3
    /\ t_end > t_start
    /\ samples[1].power # samples[2].power
    /\ samples[2].power = samples[3].power
    /\ AggregateTrapezoid(samples, t_start, t_end).energy_j # summary.energy_j

-----------------------------------------------------------------------------
(* C13 *)

\* the values computed at lines 113-135 are there
Aggregated == summary # NoSummary

\* avg (a pair <<num, den>>) is sum / (scale * n)
IsMean(avg, sum, n, scale) == avg[1] * scale * n = sum * avg[2]

\* C13: each of the five averages is the sum of all samples of the series
\* divided by the sample count, the reported sample count is the length of
\* the series, and for an empty series every average is 0 and the count 0.
C13_ArithmeticMeans ==
    Aggregated =>
        /\ summary.n = Len(samples)
        /\ Len(samples) > 0 =>
              /\ IsMean(summary.avg_p, SumOf(samples, "power"), Len(samples), 1000)
              /\ IsMean(summary.avg_core, SumOf(samples, "core"), Len(samples), 1)
              /\ IsMean(summary.avg_mem, SumOf(samples, "mem"), Len(samples), 1)
              /\ IsMean(summary.avg_util, SumOf(samples, "util"), Len(samples), 1)
              /\ IsMean(summary.avg_temp, SumOf(samples, "temp"), Len(samples), 1)
        /\ Len(samples) = 0 =>
              /\ summary.n = 0
              /\ summary.avg_p[1] = 0 /\ summary.avg_p[2] > 0
              /\ summary.avg_core[1] = 0 /\ summary.avg_core[2] > 0
              /\ summary.avg_mem[1] = 0 /\ summary.avg_mem[2] > 0
              /\ summary.avg_util[1] = 0 /\ summary.avg_util[2] > 0
              /\ summary.avg_temp[1] = 0 /\ summary.avg_temp[2] > 0
        /\ Reported =>
              /\ file.lines[7] = <<"samples", <<Len(samples)>> >>
              /\ Len(samples) = 0 => \A i \in 2..6 : file.lines[i][2] = <<0, 0>>

C13_Witness ==
    /\ Reported
    /\ samples = <<>>
    /\ file.lines[7] = <<"samples", <<0>> >>
    /\ file.lines[2] = <<"power_avg_w", <<0, 0>> >>

-----------------------------------------------------------------------------
(* C14 *)

\* the series after the step is the series before it plus one sample
OneAppended == Len(samples') = Len(samples) + 1 /\ SubSeq(samples', 1, Len(samples)) = samples

\* C14: the loop is sample-then-check: the poll of an iteration comes
\* first, then exactly one sample is appended whatever the poll returned,
\* and only then the poll result decides between leaving and sleeping; so
\* the iteration that saw the exit still appends its sample, a child that
\* had exited before the first poll gives a series of exactly one sample,
\* and the series is never empty when the loop has ended.
C14_SampleThenCheck ==
    /\ [](pc = "sample" => polls = Len(samples) + 1)
    /\ [](pc \in {"check", "sleep"} => polls = Len(samples))
    /\ [][pc = "poll" /\ pc' # "poll" => pc' = "sample" /\ samples' = samples]_vars
    /\ [][pc = "sample" /\ pc' # "sample" =>
             /\ OneAppended
             /\ pc' = "check"
             /\ child_done' = child_done
             /\ polls' = polls]_vars
    /\ [][pc = "check" /\ pc' # "check" =>
             /\ samples' = samples
             /\ pc' = IF child_done THEN "aggregate" ELSE "sleep"]_vars
    /\ [](LoopEnded =>
             /\ Len(samples) >= 1
             /\ Len(samples) = polls
             /\ t_start >= tExit => Len(samples) = 1)

\* the child ran, and had exited before the first poll
C14_Witness ==
    /\ LoopEnded
    /\ tExit > tFork
    /\ t_start >= tExit
    /\ Len(samples) = 1
    /\ polls = 1

-----------------------------------------------------------------------------
(* C15 *)

\* the loop is in RUNNING: between the first poll and the break
LoopRunning == device /\ pc \in {"poll", "sample", "check", "sleep"}

\* C15: under fair scheduling the loop, once entered, reaches DONE and the
\* monitor then exits; the loop leaves RUNNING only at the check of an
\* iteration whose poll reaped the child; and once in DONE it stays there,
\* with no further poll, sample or sleep.
C15_LoopReachesDone ==
    /\ LoopRunning ~> LoopEnded
    /\ LoopEnded ~> Exited
    /\ [][LoopRunning /\ ~LoopRunning' =>
             /\ pc = "check"
             /\ LoopEnded'
             /\ child_done
             /\ child = "reaped"
             /\ reaps = 1
             /\ now >= tExit]_vars
    /\ [][LoopEnded =>
             /\ LoopEnded'
             /\ polls' = polls
             /\ samples' = samples
             /\ wakeAt' = wakeAt]_vars

C15_Witness == LoopEnded /\ pc = "aggregate" /\ polls = MaxDur + 1 /\ sample_ms > 0

-----------------------------------------------------------------------------
(* C16 *)

\* C16 as stated: when exec fails the child exits 127, the loop observes
\* it, at least one sample is taken, the report is written when telemetry
\* is available, and the monitor exits 127.
C16_ExecFailureExits127 ==
    Exited /\ execFailed =>
        /\ kstatus = WExited(127)
        /\ device => child_done /\ Len(samples) >= 1 /\ Reported
        /\ exitCode = 127

\* C16 amended: when exec fails the child exits 127 and the monitor does
\* not hang, it exits.  With telemetry available the loop observes the
\* child's exit by a poll, takes at least one sample, and the monitor exits
\* 127 with the report written, unless the output file cannot be opened:
\* then it exits 6 with no report.  With telemetry unavailable the child
\* is reaped by a blocking wait, nothing is sampled or written, and the
\* monitor exits 4 or 5.
C16_ExecFailureObserved ==
    /\ execFailed ~> Exited
    /\ [](execFailed => kstatus = WExited(127) /\ WEXITSTATUS(kstatus) = 127)
    /\ [](Exited /\ execFailed /\ device =>
             /\ child = "reaped" /\ reaps = 1 /\ blockingWaits = 0
             /\ child_done
             /\ Len(samples) >= 1
             /\ IF fileOps = 1
                  THEN Reported /\ exitCode = 127
                  ELSE fileOps = 0 /\ exitCode = 6)
    /\ [](Exited /\ execFailed /\ ~device =>
             /\ child = "reaped" /\ reaps = 1 /\ blockingWaits = 1
             /\ polls = 0 /\ samples = <<>>
             /\ fileOps = 0
             /\ exitCode \in {4, 5})

C16_Witness ==
    /\ Exited /\ execFailed /\ device
    /\ exitCode = 127 /\ fileOps = 1
    /\ polls >= 2 /\ blockingWaits = 0

-----------------------------------------------------------------------------
(* C17 *)

\* everything a step of main() or of the clock can depend on, besides the
\* values held in the series
ControlState ==
    <<run, argc, interval, sample_ms, child, execFailed, kstatus, tFork,
      tExit, now, session, device, status, child_done, t_start, t_end,
      wakeAt, ofsOpen, exitCode, failCode, reaps, polls, blockingWaits,
      lateWaits, shutdowns, fileOps, fileBefore>>

\* C17: whatever subset of the five queries of a read fails, the sample
\* appended has 0 in exactly the failing fields and the values read in the
\* others; the read appends one sample, is made once per poll, and changes
\* nothing of the control state but the position, which goes on to the
\* check either way; iterations, reaping and exit code are those fixed by
\* the child and the clock.
C17_ReadFailureAbsorbed ==
    /\ [](pc = "check" =>
             \A m \in Metrics :
                 samples[Len(samples)][m] =
                     IF m \in lastRead[2] THEN 0 ELSE lastRead[1][m])
    /\ [][pc = "sample" /\ pc' # "sample" =>
             /\ OneAppended
             /\ pc' = "check"
             /\ ControlState' = ControlState
             /\ summary' = summary /\ file' = file]_vars
    /\ [](pc \in {"check", "sleep"} \/ LoopEnded => Len(samples) = polls)
    /\ [](LoopEnded => child = "reaped" /\ reaps = 1 /\ blockingWaits = 0)
    /\ [](Exited /\ device =>
             exitCode = IF fileOps = 1 THEN ExitPropagation(kstatus) ELSE 6)

C17_Witness ==
    /\ Reported
    /\ Len(samples) = 2
    /\ samples[1] = [m \in Metrics |-> 0]
    /\ lastRead = <<Busy, {"core", "temp"}>>
    /\ samples[2] = [power |-> 4000, core |-> 0, mem |-> 5000, util |-> 95, temp |-> 0]
    /\ exitCode = 137

-----------------------------------------------------------------------------
(* C18 *)

\* the start instant of line 72 has been taken
ClockStarted == LoopRunning \/ LoopEnded

\* C18 as stated: no telemetry setup step lies between the spawn and the
\* start instant, the end instant is taken after the final sample and
\* before aggregation, and duration_s is their difference.
C18_StartRightAfterSpawn ==
    /\ Spawned1 /\ ~ClockStarted => session = "none" /\ ~device
    /\ ClockStarted => t_start = tFork
    /\ Aggregated =>
          /\ t_end >= t_start
          /\ summary.duration_s = Reduce(<<(t_end - t_start) * TickMs, 1000>>)

\* C18 amended: the start instant is taken after the spawn and after both
\* telemetry setup steps (session init, device bind), just before the first
\* poll; the end instant is taken after the final sample of the terminating
\* iteration and before aggregation; duration_s is the difference of the
\* two, whatever the number of samples and the interval, and is what the
\* report gives.
C18_DurationSpan ==
    /\ [][pc = "t_start" /\ pc' # "t_start" =>
             /\ t_start' = now
             /\ Spawned1 /\ session = "active" /\ device
             /\ polls = 0 /\ samples = <<>>
             /\ pc' = "poll"]_vars
    /\ [](ClockStarted => tFork <= t_start /\ t_start <= now)
    /\ [][ClockStarted => t_start' = t_start]_vars
    /\ [][pc = "aggregate" /\ pc' # "aggregate" =>
             /\ t_end' = now
             /\ child_done /\ polls = Len(samples)
             /\ samples' = samples
             /\ summary = NoSummary /\ Aggregated']_vars
    /\ [](Aggregated =>
             /\ t_end >= t_start /\ t_end >= tExit
             /\ summary.duration_s = Reduce(<<(t_end - t_start) * TickMs, 1000>>))
    /\ [](Reported => file.lines[8] = <<"duration_s", Fixed3(summary.duration_s)>>)

C18_Witness ==
    /\ Reported
    /\ t_start > tFork
    /\ t_end > t_start
    /\ sample_ms > 0
    /\ (t_end - t_start) * TickMs # Len(samples) * sample_ms

-----------------------------------------------------------------------------
(* C19 *)

\* the length of the vector of metric m (lines 66-70)
LenOf(m) == Cardinality({ i \in 1..Len(samples) : m \in DOMAIN samples[i] })

\* between two iterations of the loop, or after it
IterationBoundary == (device /\ pc \in {"poll", "check", "sleep"}) \/ LoopEnded

\* C19: at every iteration boundary the five vectors have the same length,
\* the number of polls made so far; the vectors only grow, by appending at
\* the end; and the samples value of a written report is the number of
\* iterations of the loop.
C19_SeriesInvariant ==
    /\ [](IterationBoundary => \A m \in Metrics : LenOf(m) = polls)
    /\ [](pc = "sample" => \A m \in Metrics : LenOf(m) = polls - 1)
    /\ [][/\ Len(samples') \in {Len(samples), Len(samples) + 1}
          /\ SubSeq(samples', 1, Len(samples)) = samples]_vars
    /\ [][Len(samples') > Len(samples) => pc = "sample" /\ polls' = polls]_vars
    /\ [](Reported =>
             /\ file.lines[7] = <<"samples", <<polls>> >>
             /\ summary.n = polls
             /\ polls >= 1)

C19_Witness ==
    /\ Reported
    /\ polls = 3
    /\ file.lines[7] = <<"samples", <<3>> >>
    /\ samples[2] = ReadSample(Busy, {"power", "util"})
    /\ samples[3] # samples[2]

====
